---- MODULE Spec2Model ----
(***************************************************************************)
(* Model of namer.py, the conference badge generator: main reads an SVG    *)
(* template and a TSV table, BadgeGenerator.generate_badges substitutes    *)
(* the table's records into the template's placeholders page by page.      *)
(*                                                                         *)
(* Text is a sequence of one-character strings, so that scanning for       *)
(* placeholders, literal replacement, case folding, stripping and the      *)
(* backslash processing of re.sub's replacement argument are computed      *)
(* character by character, as Python computes them.                        *)
(***************************************************************************)
EXTENDS Integers, Sequences, FiniteSets, TLC

VARIABLES
  pc,             \* the statement of main / generate_badges to run next
  tfile,          \* the template file named on the command line
  dfile,          \* the data file named on the command line
  inkscape_path,  \* BadgeGenerator._inkscape_path is set (an executable was found)
  template,       \* the Template returned by read_template
  data,           \* the AttendeeData returned by read_attendees
  total_pages,    \* generate_badges' total_pages
  page,           \* generate_badges' loop variable (0-based)
  page_records,   \* generate_badges' page_records of the current page
  page_content,   \* generate_badges' page_content of the current page
  written,        \* the page files written so far, in order of writing
  convFailed,     \* the pages whose conversion to PDF failed
  result,         \* the value generate_badges returned (None before)
  error,          \* the exception that ended the run ("none" if none)
  raisedBy,       \* the step that ended the run early ("none" if none)
  status          \* the exit status of the process (None while running)

vars == <<pc, tfile, dfile, inkscape_path, template, data,
          total_pages, page, page_records, page_content, written,
          convFailed, result, error, raisedBy, status>>

(***************************************************************************)
(* Bounds of the model.                                                    *)
(***************************************************************************)
MaxRows == 3

(***************************************************************************)
(* Characters.                                                             *)
(***************************************************************************)
UpperSeq == <<"A","B","C","D","E","F","G","H","I","J","K","L","M",
              "N","O","P","Q","R","S","T","U","V","W","X","Y","Z">>
LowerSeq == <<"a","b","c","d","e","f","g","h","i","j","k","l","m",
              "n","o","p","q","r","s","t","u","v","w","x","y","z">>
DigitSeq == <<"0","1","2","3","4","5","6","7","8","9">>

RangeOf(s) == {s[i] : i \in DOMAIN s}

UpperLetters == RangeOf(UpperSeq)
LowerLetters == RangeOf(LowerSeq)
Digits == RangeOf(DigitSeq)
Whitespace == {" ", "\t", "\n", "\r", "\f"}

\* str.upper(), character by character
UpperChar(c) ==
  IF c \in LowerLetters
    THEN UpperSeq[CHOOSE i \in DOMAIN LowerSeq : LowerSeq[i] = c]
    ELSE c

Upper(s) == [i \in DOMAIN s |-> UpperChar(s[i])]

\* str.strip()
RECURSIVE LStrip(_)
LStrip(s) ==
  IF s # <<>> /\ Head(s) \in Whitespace THEN LStrip(Tail(s)) ELSE s

RECURSIVE RStrip(_)
RStrip(s) ==
  IF s # <<>> /\ s[Len(s)] \in Whitespace
    THEN RStrip(SubSeq(s, 1, Len(s) - 1))
    ELSE s

Strip(s) == RStrip(LStrip(s))

\* int(digits)
DigitVal(c) == (CHOOSE i \in DOMAIN DigitSeq : DigitSeq[i] = c) - 1

RECURSIVE ParseInt(_)
ParseInt(ds) ==
  IF ds = <<>> THEN 0
  ELSE 10 * ParseInt(SubSeq(ds, 1, Len(ds) - 1)) + DigitVal(ds[Len(ds)])

\* str(n) for n >= 0
RECURSIVE ToDigits(_)
ToDigits(n) ==
  IF n < 10 THEN <<DigitSeq[n + 1]>>
  ELSE ToDigits(n \div 10) \o <<DigitSeq[(n % 10) + 1]>>

\* t occurs in s at index i
IsPrefixAt(s, i, t) ==
  /\ i + Len(t) - 1 <= Len(s)
  /\ \A k \in 1..Len(t) : s[i + k - 1] = t[k]

\* index just past the longest run of characters of class C starting at i
RECURSIVE RunEnd(_, _, _)
RunEnd(s, i, C) ==
  IF i <= Len(s) /\ s[i] \in C THEN RunEnd(s, i + 1, C) ELSE i

(***************************************************************************)
(* BadgeGenerator.__init__: the tag prefix (the default of --prefix).      *)
(***************************************************************************)
prefix == <<"P","X","T","A","G","_">>

(***************************************************************************)
(* re.findall(rf'{prefix}([A-Z]+)(\d+)', content): the leftmost            *)
(* non-overlapping matches.  The letter run and the digit run are greedy   *)
(* and the two classes are disjoint, so a match at i exists exactly when   *)
(* the longest letter run after the prefix is followed by a digit.         *)
(***************************************************************************)
MatchAt(s, i) ==
  LET a == i + Len(prefix)
      b == RunEnd(s, a, UpperLetters)
      c == RunEnd(s, b, Digits)
  IN  IF IsPrefixAt(s, i, prefix) /\ b > a /\ c > b
        THEN [ok |-> TRUE, tag |-> SubSeq(s, a, b - 1),
              num |-> SubSeq(s, b, c - 1), end |-> c]
        ELSE [ok |-> FALSE, tag |-> <<>>, num |-> <<>>, end |-> i + 1]

RECURSIVE FindAllFrom(_, _)
FindAllFrom(s, i) ==
  IF i > Len(s) THEN <<>>
  ELSE LET m == MatchAt(s, i)
       IN  IF m.ok
             THEN <<[tag |-> m.tag, num |-> m.num]>> \o FindAllFrom(s, m.end)
             ELSE FindAllFrom(s, i + 1)

FindAll(s) == FindAllFrom(s, 1)

SetMax(S) == CHOOSE x \in S : \A y \in S : y <= x

(***************************************************************************)
(* BadgeGenerator.read_template.  A template file is                       *)
(* [exists, parses, content]: parses is the outcome of ET.fromstring.      *)
(***************************************************************************)
NoTemplate == [content |-> <<>>, tags |-> {}, records_per_page |-> 0]

max_number(matches) == SetMax({ParseInt(matches[i].num) : i \in DOMAIN matches})

\* a slip: a filter on the truth of the number loses the suffix 0
numbers_found_nonzero(matches, tag) ==
  {ParseInt(matches[i].num) : i \in {j \in DOMAIN matches : matches[j].tag = tag}}
    \ {0}

numbers_found(matches, tag) ==
  {ParseInt(matches[i].num) : i \in {j \in DOMAIN matches : matches[j].tag = tag}}

read_template(f) ==
  IF ~f.exists THEN [err |-> "FileNotFoundError", val |-> NoTemplate]
  ELSE IF ~f.parses THEN [err |-> "ValueError", val |-> NoTemplate]
  ELSE LET matches == FindAll(f.content)
       IN  IF matches = <<>> THEN [err |-> "ValueError", val |-> NoTemplate]
           ELSE LET tags == {matches[i].tag : i \in DOMAIN matches}
                    mx == max_number(matches)
                IN  IF \E tag \in tags :
                         ~(numbers_found(matches, tag) \subseteq 1..mx)
                      THEN [err |-> "ValueError", val |-> NoTemplate]
                      ELSE [err |-> "none",
                            val |-> [content |-> f.content, tags |-> tags,
                                     records_per_page |-> mx]]

(***************************************************************************)
(* BadgeGenerator.read_attendees.  A data file is [exists, rows]: rows is  *)
(* what csv.reader(f, delimiter='\t') yields, the header row first; a      *)
(* blank line yields the empty row.                                        *)
(***************************************************************************)
NoData == [headers |-> <<>>, records |-> <<>>]

MapStrip(row) == [i \in DOMAIN row |-> Strip(row[i])]

NonEmpty(cell) == cell # <<>>

\* headers = [h.strip() for h in headers if h.strip()]
CleanHeaders(hrow) == SelectSeq(MapStrip(hrow), NonEmpty)

\* not any(cell.strip() for cell in row)
IsBlankRow(row) == \A i \in DOMAIN row : Strip(row[i]) = <<>>

Min(a, b) == IF a < b THEN a ELSE b

\* row = [cell.strip() for cell in row[:len(headers)]], then padded with ''
CleanRow(row, headers) ==
  LET cut == MapStrip(SubSeq(row, 1, Min(Len(row), Len(headers))))
  IN  cut \o [i \in 1..(Len(headers) - Len(cut)) |-> <<>>]

\* dict(zip(headers, row)): a later duplicate of a key overwrites
MakeRecord(headers, row) ==
  [h \in RangeOf(headers) |->
     row[SetMax({i \in DOMAIN headers : headers[i] = h})]]

NotBlank(row) == ~IsBlankRow(row)

read_attendees(f) ==
  IF ~f.exists THEN [err |-> "FileNotFoundError", val |-> NoData]
  ELSE IF f.rows = <<>> THEN [err |-> "StopIteration", val |-> NoData]
  ELSE IF f.rows[1] = <<>> THEN [err |-> "ValueError", val |-> NoData]
  ELSE LET headers == CleanHeaders(f.rows[1])
           kept == SelectSeq(Tail(f.rows), NotBlank)
       IN  [err |-> "none",
            val |-> [headers |-> headers,
                     records |-> [i \in DOMAIN kept |->
                                    MakeRecord(headers, CleanRow(kept[i], headers))]]]

(***************************************************************************)
(* BadgeGenerator.generate_badges: validation, pagination, substitution.   *)
(***************************************************************************)
UpperSet(S) == {Upper(x) : x \in S}

\* template_tags - data_headers, both upper-cased
missing_required(tpl, dat) ==
  UpperSet(tpl.tags) \ UpperSet(RangeOf(dat.headers))

\* data_headers - template_tags, both upper-cased (a warning only)
missing_tags(tpl, dat) ==
  UpperSet(RangeOf(dat.headers)) \ UpperSet(tpl.tags)

\* a slip: floor division, the partly filled last page is lost
TotalPagesFloor(R, N) == R \div N

\* (len(data.records) + records_per_page - 1) // records_per_page
TotalPages(R, N) == (R + N - 1) \div N

EmptyRecord(headers) == [h \in RangeOf(headers) |-> <<>>]

\* a slip: the empty records are put in front of the real ones
PageRecordsPadFront(records, headers, pg, N) ==
  LET start_idx == pg * N
      slice == SubSeq(records, start_idx + 1, Min(start_idx + N, Len(records)))
  IN  [i \in 1..(N - Len(slice)) |-> EmptyRecord(headers)] \o slice

\* data.records[start_idx:start_idx + records_per_page], padded to N records
PageRecords(records, headers, pg, N) ==
  LET start_idx == pg * N
      slice == SubSeq(records, start_idx + 1, Min(start_idx + N, Len(records)))
  IN  slice \o [i \in 1..(N - Len(slice)) |-> EmptyRecord(headers)]

\* record.get(key, '')
Get(record, key) == IF key \in DOMAIN record THEN record[key] ELSE <<>>

\* f"{self.prefix}{key}{pos}"
Tag(key, pos) == prefix \o key \o ToDigits(pos)

(***************************************************************************)
(* re.sub(re.escape(tag), repl, text) with a string repl: the replacement  *)
(* is a template whose backslash escapes are processed before any search,  *)
(* so a bad escape raises re.error even when the tag does not occur.       *)
(* "\\" is the one-character string holding a backslash.  Control          *)
(* characters without a TLA+ escape are written "BEL", "BS", "VT", "NUL";  *)
(* an octal escape with digits after \0 is written "OCT".  Of the group    *)
(* references only \g<0> (the whole match) exists for a pattern without    *)
(* groups.                                                                 *)
(***************************************************************************)
OctalDigits == {"0","1","2","3","4","5","6","7"}

EscapeChar(c) ==
  CASE c = "n" -> "\n" [] c = "t" -> "\t" [] c = "r" -> "\r" [] c = "f" -> "\f"
    [] c = "a" -> "BEL" [] c = "b" -> "BS" [] c = "v" -> "VT" [] c = "\\" -> "\\"

Escapes == {"n", "t", "r", "f", "a", "b", "v", "\\"}

RECURSIVE ExpandFrom(_, _, _)
ExpandFrom(v, i, match) ==
  IF i > Len(v) THEN [ok |-> TRUE, text |-> <<>>]
  ELSE IF v[i] # "\\"
    THEN LET rest == ExpandFrom(v, i + 1, match)
         IN  [ok |-> rest.ok, text |-> <<v[i]>> \o rest.text]
  ELSE IF i = Len(v) THEN [ok |-> FALSE, text |-> <<>>]
  ELSE LET c == v[i + 1]
       IN  IF c \in Escapes
             THEN LET rest == ExpandFrom(v, i + 2, match)
                  IN  [ok |-> rest.ok, text |-> <<EscapeChar(c)>> \o rest.text]
           ELSE IF c = "g"
             THEN IF IsPrefixAt(v, i + 2, <<"<", "0", ">">>)
                    THEN LET rest == ExpandFrom(v, i + 5, match)
                         IN  [ok |-> rest.ok, text |-> match \o rest.text]
                    ELSE [ok |-> FALSE, text |-> <<>>]
           ELSE IF c = "0"
             THEN LET e == Min(RunEnd(v, i + 2, OctalDigits), i + 4)
                      rest == ExpandFrom(v, e, match)
                  IN  [ok |-> rest.ok,
                       text |-> <<IF e = i + 2 THEN "NUL" ELSE "OCT">> \o rest.text]
           ELSE IF c \in Digits \cup UpperLetters \cup LowerLetters
             THEN [ok |-> FALSE, text |-> <<>>]
           ELSE LET rest == ExpandFrom(v, i + 2, match)
                IN  [ok |-> rest.ok, text |-> <<"\\", c>> \o rest.text]

ExpandRepl(v, match) == ExpandFrom(v, 1, match)

\* every non-overlapping occurrence of the literal t in s, left to right
RECURSIVE ReplaceFrom(_, _, _, _)
ReplaceFrom(s, i, t, r) ==
  IF i > Len(s) THEN <<>>
  ELSE IF IsPrefixAt(s, i, t) THEN r \o ReplaceFrom(s, i + Len(t), t, r)
  ELSE <<s[i]>> \o ReplaceFrom(s, i + 1, t, r)

ReSub(tag, value, text) ==
  LET rep == ExpandRepl(value, tag)
  IN  IF rep.ok THEN [ok |-> TRUE, text |-> ReplaceFrom(text, 1, tag, rep.text)]
      ELSE [ok |-> FALSE, text |-> text]

\* the replacements of one page applied in a given order of <<pos, key>>
RECURSIVE ApplyOrder(_, _, _, _)
ApplyOrder(text, recs, order, i) ==
  IF i > Len(order) THEN [ok |-> TRUE, text |-> text]
  ELSE LET pos == order[i][1]
           key == order[i][2]
           r == ReSub(Tag(key, pos), Get(recs[pos], key), text)
       IN  IF r.ok THEN ApplyOrder(r.text, recs, order, i + 1)
           ELSE [ok |-> FALSE, text |-> text]

\* for pos in range(1, N + 1): for key in data.headers
CodeOrder(N, headers) ==
  [i \in 1..(N * Len(headers)) |->
     <<((i - 1) \div Len(headers)) + 1, headers[((i - 1) % Len(headers)) + 1]>>]

ComposeText(tpl, dat, recs) ==
  ApplyOrder(tpl.content, recs, CodeOrder(tpl.records_per_page, dat.headers), 1)

(***************************************************************************)
(* The input files the runs are drawn from.                                *)
(***************************************************************************)
NAME == <<"N","A","M","E">>
ORG == <<"O","R","G">>
Open == <<"<","g",">">>
Close == <<"<","/","g",">">>
Sp == <<" ">>

TemplateFile(c) == [exists |-> TRUE, parses |-> TRUE, content |-> c]

TemplateFiles ==
  { TemplateFile(Open \o Tag(NAME, 1) \o Close),
    TemplateFile(Open \o Tag(NAME, 1) \o Sp \o Tag(NAME, 2) \o Close),
    TemplateFile(Open \o Tag(NAME, 1) \o Sp \o Tag(ORG, 1) \o Sp
                      \o Tag(NAME, 1) \o Close),
    TemplateFile(Open \o Tag(NAME, 1) \o Sp \o Tag(ORG, 2) \o Close),
    TemplateFile(Open \o Tag(NAME, 1) \o Sp \o Tag(NAME, 10) \o Close),
    TemplateFile(Open \o prefix \o NAME \o <<"0","1">> \o Close),
    TemplateFile(Open \o Tag(NAME, 0) \o Close),
    TemplateFile(Open \o Tag(NAME, 0) \o Sp \o Tag(NAME, 2) \o Close),
    TemplateFile(Open \o prefix \o NAME \o Sp \o prefix \o <<"n","1">> \o Close),
    [exists |-> TRUE, parses |-> FALSE, content |-> Open \o Tag(NAME, 1)],
    [exists |-> FALSE, parses |-> FALSE, content |-> <<>>] }

HeaderRows ==
  { <<NAME>>,
    <<NAME, ORG>>,
    <<<<>>, NAME>>,
    <<<<"n","a","m","e">>>>,
    <<Sp \o NAME, ORG \o Sp, <<"X">>>>,
    <<>> }

DataRows ==
  { << <<"A","l">>, <<"X">> >>,
    << <<" ","B","o"," ">> >>,
    << <<" ">>, <<>> >>,
    << <<"\\","\\">>, <<"\\","d">> >> }

RECURSIVE SeqsUpTo(_, _)
SeqsUpTo(S, n) ==
  IF n = 0 THEN {<<>>}
  ELSE LET shorter == SeqsUpTo(S, n - 1)
       IN  shorter \cup {Append(q, x) : q \in shorter, x \in S}

DataFiles ==
  {[exists |-> TRUE, rows |-> <<h>> \o rs] :
      h \in HeaderRows, rs \in SeqsUpTo(DataRows, MaxRows)}
  \cup {[exists |-> TRUE, rows |-> <<>>],
        [exists |-> FALSE, rows |-> <<>>]}

\* result and status hold no value (<<>>) or one value (<<v>>)
None == <<>>
Some(v) == <<v>>

(***************************************************************************)
(* main and generate_badges, statement by statement.                       *)
(***************************************************************************)
Init ==
  /\ pc = "main"
  /\ tfile \in TemplateFiles
  /\ dfile \in DataFiles
  /\ inkscape_path = FALSE
  /\ template = NoTemplate
  /\ data = NoData
  /\ total_pages = 0
  /\ page = 0
  /\ page_records = <<>>
  /\ page_content = <<>>
  /\ written = <<>>
  /\ convFailed = {}
  /\ result = None
  /\ error = "none"
  /\ raisedBy = "none"
  /\ status = None

\* An exception leaves main: ValueError and FileNotFoundError are caught and
\* main returns 1; any other exception is uncaught and the interpreter exits
\* with status 1 as well.
Raise(e, by) ==
  /\ error' = e
  /\ raisedBy' = by
  /\ status' = Some(1)
  /\ pc' = "exit"

\* main, lines 217-229: the output directory exists and --force is not given
MainStart ==
  /\ pc = "main"
  /\ \E blocked \in BOOLEAN :
       IF blocked
         THEN /\ pc' = "exit"
              /\ status' = Some(1)
              /\ raisedBy' = "output_dir"
         ELSE /\ pc' = "construct"
              /\ UNCHANGED <<status, raisedBy>>
  /\ UNCHANGED <<tfile, dfile, inkscape_path, template, data, total_pages,
                 page, page_records, page_content, written, convFailed,
                 result, error>>

\* BadgeGenerator.__init__ / _find_inkscape
Construct ==
  /\ pc = "construct"
  /\ inkscape_path' \in BOOLEAN
  /\ pc' = "read_template"
  /\ UNCHANGED <<tfile, dfile, template, data, total_pages, page,
                 page_records, page_content, written, convFailed, result,
                 error, raisedBy, status>>

ReadTemplate ==
  /\ pc = "read_template"
  /\ LET r == read_template(tfile)
     IN  IF r.err = "none"
           THEN /\ template' = r.val
                /\ pc' = "read_attendees"
                /\ UNCHANGED <<error, raisedBy, status>>
           ELSE /\ Raise(r.err, "read_template")
                /\ UNCHANGED template
  /\ UNCHANGED <<tfile, dfile, inkscape_path, data, total_pages, page,
                 page_records, page_content, written, convFailed, result>>

ReadAttendees ==
  /\ pc = "read_attendees"
  /\ LET r == read_attendees(dfile)
     IN  IF r.err = "none"
           THEN /\ data' = r.val
                /\ pc' = "generate_badges"
                /\ UNCHANGED <<error, raisedBy, status>>
           ELSE /\ Raise(r.err, "read_attendees")
                /\ UNCHANGED data
  /\ UNCHANGED <<tfile, dfile, inkscape_path, template, total_pages, page,
                 page_records, page_content, written, convFailed, result>>

\* generate_badges, lines 155-170
Validate ==
  /\ pc = "generate_badges"
  /\ IF missing_required(template, data) # {}
       THEN /\ Raise("ValueError", "validate")
            /\ UNCHANGED <<total_pages, page>>
       ELSE /\ total_pages' = TotalPages(Len(data.records),
                                         template.records_per_page)
            /\ page' = 0
            /\ pc' = "compose"
            /\ UNCHANGED <<error, raisedBy, status>>
  /\ UNCHANGED <<tfile, dfile, inkscape_path, template, data, page_records,
                 page_content, written, convFailed, result>>

\* generate_badges, lines 173-189: one iteration up to the finished text
ComposePage ==
  /\ pc = "compose"
  /\ page < total_pages
  /\ LET recs == PageRecords(data.records, data.headers, page,
                             template.records_per_page)
         r == ComposeText(template, data, recs)
     IN  /\ page_records' = recs
         /\ IF r.ok
              THEN /\ page_content' = r.text
                   /\ pc' = "write"
                   /\ UNCHANGED <<error, raisedBy, status>>
              ELSE /\ Raise("re.error", "re.sub")
                   /\ UNCHANGED page_content
  /\ UNCHANGED <<tfile, dfile, inkscape_path, template, data, total_pages,
                 page, written, convFailed, result>>

\* generate_badges, lines 191-197
WritePage ==
  /\ pc = "write"
  /\ written' = Append(written, [page |-> page + 1, content |-> page_content,
                                 records |-> page_records])
  /\ IF inkscape_path
       THEN /\ pc' = "convert"
            /\ page' = page
       ELSE /\ pc' = "compose"
            /\ page' = page + 1
  /\ UNCHANGED <<tfile, dfile, inkscape_path, template, data, total_pages,
                 page_records, page_content, convFailed, result, error,
                 raisedBy, status>>

\* What the conversion of a page does to the run.  subprocess.run has no
\* check=True, so a non-zero exit of the converter ("failed") raises nothing;
\* an exception of subprocess.run ("exception") is caught and logged.
ConversionOutcomes == {"ok", "failed", "exception"}

\* a slip: the try/except around subprocess.run is missing
ConvertRaisesUncaught(outcome) == outcome = "exception"

ConvertRaises(outcome) == FALSE

\* generate_badges, lines 197-205
ConvertPage ==
  /\ pc = "convert"
  /\ \E outcome \in ConversionOutcomes :
       /\ convFailed' = IF outcome = "ok" THEN convFailed
                        ELSE convFailed \cup {page + 1}
       /\ IF ConvertRaises(outcome)
            THEN /\ Raise("Exception", "convert")
                 /\ page' = page
            ELSE /\ pc' = "compose"
                 /\ page' = page + 1
                 /\ UNCHANGED <<error, raisedBy, status>>
  /\ UNCHANGED <<tfile, dfile, inkscape_path, template, data, total_pages,
                 page_records, page_content, written, result>>

\* generate_badges, line 207, and main, lines 246-249
Return ==
  /\ pc = "compose"
  /\ page >= total_pages
  /\ result' = Some(total_pages)
  /\ status' = Some(0)
  /\ pc' = "exit"
  /\ UNCHANGED <<tfile, dfile, inkscape_path, template, data, total_pages,
                 page, page_records, page_content, written, convFailed,
                 error, raisedBy>>

Next ==
  \/ MainStart
  \/ Construct
  \/ ReadTemplate
  \/ ReadAttendees
  \/ Validate
  \/ ComposePage
  \/ WritePage
  \/ ConvertPage
  \/ Return

Spec == Init /\ [][Next]_vars

(***************************************************************************)
(* Vocabulary of the properties.                                           *)
(***************************************************************************)
\* generate_badges returned its page count
Returned == pc = "exit" /\ result # None

\* read_template and read_attendees both returned
InputsRead ==
  \/ pc \in {"generate_badges", "compose", "write", "convert"}
  \/ pc = "exit" /\ raisedBy \in {"validate", "re.sub", "convert"}
  \/ Returned

\* read_template returned
TemplateRead ==
  \/ pc = "read_attendees"
  \/ pc = "exit" /\ raisedBy = "read_attendees"
  \/ InputsRead

\* ceil(R / N) as the least k with k * N >= R
CeilDiv(R, N) == CHOOSE k \in 0..R : k * N >= R /\ \A j \in 0..(k - 1) : j * N < R

WrittenPages == [i \in DOMAIN written |-> written[i].page]

PagesUpTo(n) == [i \in 1..n |-> i]

Suffixes(content) ==
  LET ms == FindAll(content) IN {ParseInt(ms[i].num) : i \in DOMAIN ms}

SuffixesOf(content, tag) ==
  LET ms == FindAll(content)
  IN  {ParseInt(ms[i].num) : i \in {j \in DOMAIN ms : ms[j].tag = tag}}

(***************************************************************************)
(* C1: when generate_badges returns for a template of capacity N >= 1 and  *)
(* a table of R >= 1 records, the value returned is ceil(R / N) and the    *)
(* page files written are exactly page_1 .. page_ceil(R/N), each once.     *)
(***************************************************************************)
C1_PageCount ==
  LET R == Len(data.records)
      N == template.records_per_page
  IN  (Returned /\ N >= 1 /\ R >= 1) =>
        /\ result = Some(CeilDiv(R, N))
        /\ WrittenPages = PagesUpTo(CeilDiv(R, N))

\* three records on pages of two: two pages, the second partly filled
C1_Witness ==
  /\ Returned
  /\ Len(data.records) = 3
  /\ template.records_per_page = 2
  /\ result = Some(2)
  /\ WrittenPages = <<1, 2>>

C8_ConversionFailureContinues ==
  /\ raisedBy # "convert"
  /\ convFailed # {} /\ pc = "exit" => raisedBy \in {"none", "re.sub"}
  /\ Returned =>
       /\ WrittenPages = PagesUpTo(total_pages)
       /\ result = Some(CeilDiv(Len(data.records), template.records_per_page))

\* the conversion of page 1 failed and pages 2 and 3 were written all the same
C8_Witness ==
  /\ Returned
  /\ 1 \in convFailed
  /\ result = Some(3)
  /\ WrittenPages = <<1, 2, 3>>

(***************************************************************************)
(* C10: a Template returned by read_template has records_per_page equal    *)
(* to the highest numeric suffix of any placeholder of the template text,  *)
(* every field's suffixes lie in 1..records_per_page, records_per_page is  *)
(* at least 1; a template text (existing, well-formed) with a placeholder  *)
(* of suffix 0 or without any placeholder is rejected with an error.       *)
(***************************************************************************)
C10_Capacity ==
  /\ TemplateRead =>
       /\ template.records_per_page \in Suffixes(tfile.content)
       /\ \A n \in Suffixes(tfile.content) : n <= template.records_per_page
       /\ template.records_per_page >= 1
       /\ \A tag \in template.tags :
            /\ SuffixesOf(tfile.content, tag) # {}
            /\ SuffixesOf(tfile.content, tag) \subseteq 1..template.records_per_page
  /\ (/\ pc \notin {"main", "construct", "read_template"}
      /\ raisedBy # "output_dir"
      /\ 0 \in Suffixes(tfile.content) \/ Suffixes(tfile.content) = {})
       => /\ pc = "exit"
          /\ raisedBy = "read_template"
          /\ error \in {"ValueError", "FileNotFoundError"}
          /\ template = NoTemplate

\* a template whose fields use different suffixes: NAME only 1, ORG only 2
C10_Witness ==
  /\ TemplateRead
  /\ template.records_per_page = 2
  /\ \E tag \in template.tags : SuffixesOf(tfile.content, tag) = {1}

(***************************************************************************)
(* C2: whenever some field of the template is not one of the table's       *)
(* column names, generate_badges raises in its validation and no page      *)
(* file is written.                                                        *)
(***************************************************************************)
C2_MissingColumnFailsFirst ==
  (InputsRead /\ pc # "generate_badges"
     /\ ~(template.tags \subseteq RangeOf(data.headers)))
    => /\ written = <<>>
       /\ pc = "exit"
       /\ raisedBy = "validate"

(***************************************************************************)
(* C3: no page text that is written contains a placeholder token           *)
(* <prefix>[A-Z]+[0-9]+.                                                   *)
(***************************************************************************)
C3_NoPlaceholderLeft ==
  \A i \in DOMAIN written : FindAll(written[i].content) = <<>>

(***************************************************************************)
(* C4: every page text that is written is the template text in which       *)
(* every occurrence of each token <prefix><key><p> has been replaced by    *)
(* the value of position p's record for key, character for character.      *)
(***************************************************************************)
RECURSIVE LiteralOrder(_, _, _, _)
LiteralOrder(text, recs, order, i) ==
  IF i > Len(order) THEN text
  ELSE LiteralOrder(ReplaceFrom(text, 1, Tag(order[i][2], order[i][1]),
                                Get(recs[order[i][1]], order[i][2])),
                    recs, order, i + 1)

C4_ValueInsertedVerbatim ==
  \A i \in DOMAIN written :
    written[i].content =
      LiteralOrder(template.content, written[i].records,
                   CodeOrder(template.records_per_page, data.headers), 1)

(***************************************************************************)
(* C6: read_attendees returns one record per non-blank data row, in        *)
(* order; its keys are the non-blank header cells, and its value for a     *)
(* header cell is the row's cell at that header cell's own position in     *)
(* the header row (whitespace stripped), or the empty string when the row  *)
(* has no cell there.                                                      *)
(***************************************************************************)
RetainedPositions(hrow) == {i \in DOMAIN hrow : Strip(hrow[i]) # <<>>}

CellAt(row, i) == IF i <= Len(row) THEN Strip(row[i]) ELSE <<>>

C6_RecordsByHeaderPosition ==
  InputsRead =>
    LET hrow == dfile.rows[1]
        kept == SelectSeq(Tail(dfile.rows), NotBlank)
    IN  /\ Len(data.records) = Len(kept)
        /\ \A r \in DOMAIN kept :
             /\ DOMAIN data.records[r] =
                  {Strip(hrow[i]) : i \in RetainedPositions(hrow)}
             /\ \A i \in RetainedPositions(hrow) :
                  data.records[r][Strip(hrow[i])] = CellAt(kept[r], i)

(***************************************************************************)
(* C7: a run of main that got past the output directory check, on a        *)
(* template whose placeholders are numbered from 1, ends with a non-zero   *)
(* status and no page written when an input file is missing, the template  *)
(* is malformed or has no placeholder, or a field of the template is not   *)
(* a column of the table; every other such run ends with status zero and   *)
(* all of its pages written.                                               *)
(***************************************************************************)
FieldsOf(f) ==
  LET ms == FindAll(f.content) IN {ms[i].tag : i \in DOMAIN ms}

ColumnsOf(f) ==
  IF f.rows = <<>> THEN {} ELSE RangeOf(CleanHeaders(f.rows[1]))

C7_FailureCondition ==
  \/ ~tfile.exists
  \/ ~dfile.exists
  \/ ~tfile.parses
  \/ FieldsOf(tfile) = {}
  \/ ~(FieldsOf(tfile) \subseteq ColumnsOf(dfile))

C7_ExitStatus ==
  (pc = "exit" /\ raisedBy # "output_dir" /\ 0 \notin Suffixes(tfile.content)) =>
    IF C7_FailureCondition
      THEN status = Some(1) /\ written = <<>>
      ELSE /\ status = Some(0)
           /\ WrittenPages = PagesUpTo(total_pages)

(***************************************************************************)
(* C9: the text of every page that is written does not depend on the       *)
(* order of the (position, column) replacements: exchanging any two steps  *)
(* of the order gives the same text.                                       *)
(***************************************************************************)
Swap(order, i, j) ==
  [k \in DOMAIN order |->
     IF k = i THEN order[j] ELSE IF k = j THEN order[i] ELSE order[k]]

C9_OrderIndependent ==
  \A n \in DOMAIN written :
    LET order == CodeOrder(template.records_per_page, data.headers)
    IN  \A i \in DOMAIN order : \A j \in DOMAIN order :
          i < j =>
            ApplyOrder(template.content, written[n].records,
                       Swap(order, i, j), 1).text = written[n].content

====
